---- MODULE Spec2Model ----
(***************************************************************************)
(* Model of autografs.utils.topology.Topology: the decomposition of a      *)
(* periodic net into fragments (_get_cutoffs, _analyze), the equivalence   *)
(* classes built from the space group, the slot matcher                    *)
(* (has_compatible_slots) and the accessors (copy, get_atoms,              *)
(* get_fragments, get_unique_shapes, get_unique_pointgroups).              *)
(*                                                                         *)
(* Geometry.  The structures are the 2D nets read_cgd builds: pbc =        *)
(* (True, True, False), every z = 0, here with a square cell whose edge is *)
(* Grid length units and atoms on integer grid points <<x, y>>,            *)
(* 0 <= x, y < Grid, so the scaled position of <<x, y>> is <<x/Grid,     *)
(* y/Grid>>.  Distances are kept as squared integers (D2); the code only   *)
(* compares distances, and neighbouring values sqrt(m), sqrt(m+1) on this  *)
(* grid differ by far more than the skin 0.005 and the tolerance 1e-6.     *)
(* Atom indices are 0-based as in numpy; a map (dict) is a function whose  *)
(* DOMAIN is its key set.                                                  *)
(***************************************************************************)
EXTENDS Integers, Sequences, FiniteSets

VARIABLES
    atoms,    \* the caller's structure; Topology keeps it as self.atoms
    given,    \* the structure as the caller built it (never assigned again)
    topo,     \* the Topology returned by the constructor
    new,      \* the Topology returned by topo.copy()
    cutoffs,  \* what _get_cutoffs returned to _analyze
    result,   \* what the last method call returned
    err       \* the exception the constructor raised, "none" without one

vars == <<atoms, given, topo, new, cutoffs, result, err>>

\* ------------------------------------------------------------------ bounds
Grid == 5
MaxReal == 3
MaxDummy == 2
MaxCoord == 2

\* ------------------------------------------------------------- small helpers
Abs(a) == IF a < 0 THEN 0 - a ELSE a

Min(S) == CHOOSE a \in S : \A b \in S : a <= b

Range(f) == {f[i] : i \in DOMAIN f}

EmptyMap == [k \in {} |-> 0]

Indices(at) == 0 .. (at.n - 1)

\* numpy.where(numbers == 0)[0] and numpy.where(numbers > 0)[0]
XisOf(at) == {i \in Indices(at) : at.numbers[i] = 0}
AisOf(at) == {i \in Indices(at) : at.numbers[i] > 0}

\* ------------------------------------------------------------------ geometry
\* one component of the minimum-image vector on a periodic axis of length Grid
MicComp(a, b) == LET d == Abs(a - b) IN IF 2 * d > Grid THEN Grid - d ELSE d

\* atoms.get_distances(i, j, mic=True), squared
MicD2(at, i, j) ==
    LET mx == MicComp(at.positions[i][1], at.positions[j][1])
        my == MicComp(at.positions[i][2], at.positions[j][2])
    IN mx * mx + my * my

\* squared distance from atom i to the periodic image of atom j shifted by
\* the cell offset off: | positions[j] + off . cell - positions[i] |^2
ImageD2(at, i, j, off) ==
    LET dx == at.positions[j][1] + off[1] * Grid - at.positions[i][1]
        dy == at.positions[j][2] + off[2] * Grid - at.positions[i][2]
    IN dx * dx + dy * dy

\* ------------------------------------------------------------ _get_cutoffs
\* A cutoff is [d2, skin]: the radius sqrt(d2) + skin * 5e-3.
skin == 1

\* mutant of KthSmallest: the slice [:coord + 1] keeps one connector too many
KthSmallestOneMore(at, i, Xis, k) ==
    CHOOSE v \in {MicD2(at, i, j) : j \in Xis} :
        /\ Cardinality({j \in Xis : MicD2(at, i, j) < v}) < k + 1
        /\ Cardinality({j \in Xis : MicD2(at, i, j) <= v}) >= k + 1

\* dists[argpartition(dists, coord)[:coord]].max(): the coord-th smallest
\* value of the distances from atom i to the dummies Xis
KthSmallest(at, i, Xis, k) ==
    CHOOSE v \in {MicD2(at, i, j) : j \in Xis} :
        /\ Cardinality({j \in Xis : MicD2(at, i, j) < v}) < k
        /\ Cardinality({j \in Xis : MicD2(at, i, j) <= v}) >= k

\* dists.max()
MaxDist(at, i, Xis) ==
    CHOOSE v \in {MicD2(at, i, j) : j \in Xis} :
        \A j \in Xis : MicD2(at, i, j) <= v

\* the value assigned to cutoffs[other_index]
CutoffOf(at, i, Xis) ==
    LET coord == at.numbers[i]
    IN IF coord < Cardinality(Xis)
       THEN KthSmallest(at, i, Xis, coord)
       ELSE MaxDist(at, i, Xis)

\* dists.max() of an empty array raises ValueError
CutoffsRaise(at, Xis, Ais) == Ais # {} /\ Xis = {}

_get_cutoffs(at, Xis, Ais) ==
    [i \in Indices(at) |->
        IF i \in Ais
        THEN [d2 |-> CutoffOf(at, i, Xis), skin |-> 0]
        ELSE [d2 |-> 0, skin |-> skin]]

\* ------------------------------------------------- neighbour list, fragments
\* cell offsets of the periodic images that can lie within a cutoff (the
\* cutoff is a minimum-image distance, so below one cell edge); the third
\* axis is not periodic
Offsets == <<<<-1, -1>>, <<-1, 0>>, <<-1, 1>>, <<0, -1>>, <<0, 0>>,
             <<0, 1>>, <<1, -1>>, <<1, 0>>, <<1, 1>>>>

\* NeighborList(cutoffs, bothways=True, self_interaction=False, skin=0.0):
\* image (j, off) is a neighbour of real atom ai when its distance is below
\* the sum of the two radii.  Only dummies j are looked at (their d2 is 0):
\* sqrt(D) < sqrt(d2) + s * 5e-3 is D <= d2 when s > 0, D < d2 when s = 0.
IsNeighbor(at, cut, ai, j, off) ==
    /\ ~(j = ai /\ off = <<0, 0>>)
    /\ IF cut[ai].skin + cut[j].skin > 0
       THEN ImageD2(at, ai, j, off) <= cut[ai].d2
       ELSE ImageD2(at, ai, j, off) < cut[ai].d2

\* mutant of DummyNeighbors: the periodic images are forgotten, only the
\* connectors of the home cell are returned
DummyNeighborsHomeCell(at, cut, Xis, ai) ==
    {c \in [idx : Xis, off : {<<0, 0>>}] :
        IsNeighbor(at, cut, ai, c.idx, c.off)}

\* the (index, offset) pairs left of neighborlist.get_neighbors(ai) by the
\* filter "if idx in Xis"
DummyNeighbors(at, cut, Xis, ai) ==
    {c \in [idx : Xis, off : Range(Offsets)] :
        IsNeighbor(at, cut, ai, c.idx, c.off)}

\* The code keeps the pairs in the order get_neighbors returns them and never
\* sorts them; that order is the neighbour list's own (sorted=False) and
\* changes with the search it runs, so every enumeration of the pairs is a
\* possible answer.
NeighborOrders(S) ==
    {f \in [1 .. Cardinality(S) -> S] :
        \A p, q \in 1 .. Cardinality(S) : p # q => f[p] # f[q]}

\* one answer of the neighbour list for every real atom
NeighborLists(at, cut, Xis, Ais) ==
    {nl \in [Ais -> UNION {NeighborOrders(DummyNeighbors(at, cut, Xis, ai)) :
                              ai \in Ais}] :
        \A ai \in Ais : nl[ai] \in NeighborOrders(DummyNeighbors(at, cut, Xis, ai))}

\* Atoms("X" * len(ni), positions[ni] + no.dot(cell), tags=tags[ni])
MakeFragment(at, nbrs) ==
    [q \in 1 .. Len(nbrs) |->
        [pos |-> <<at.positions[nbrs[q].idx][1] + nbrs[q].off[1] * Grid,
                   at.positions[nbrs[q].idx][2] + nbrs[q].off[2] * Grid>>,
         tag |-> at.tags[nbrs[q].idx]]]

\* zip(*[]) cannot be unpacked into (ni, no): ValueError
FragmentsRaise(at, cut, Xis, Ais) ==
    \E ai \in Ais : DummyNeighbors(at, cut, Xis, ai) = {}

\* self.fragments, for the answers nl of the neighbour list
FragmentsOf(at, Ais, nl) ==
    [ai \in Ais |-> MakeFragment(at, nl[ai])]

\* ------------------------------------------- symmetry classifier (external)
\* symmetry.get_symmetry_elements and symmetry.PointGroup see a fragment only
\* through its geometry.  Congruent fragments have the same Signature: the
\* number of points and, for every squared distance, the number of point
\* pairs at that distance.
PointD2(p, q) ==
    (p[1] - q[1]) * (p[1] - q[1]) + (p[2] - q[2]) * (p[2] - q[2])

Signature(frag) ==
    LET pairs == {pq \in (DOMAIN frag) \X (DOMAIN frag) : pq[1] < pq[2]}
        d(pq) == PointD2(frag[pq[1]].pos, frag[pq[2]].pos)
    IN <<Len(frag),
         {<<d(pq), Cardinality({rs \in pairs : d(rs) = d(pq)})>> : pq \in pairs}>>

\* The classifier is free in what it answers, but answers the same for the
\* same Signature: Construct draws one answer per Signature.
\* what the classifier may answer for one geometry: the symmetry-element
\* counts (the shape without its trailing multiplicity) and the label
Heads == {<<1, 0>>, <<0, 1>>}
Labels == {"C2v", "D2h"}
Outputs == {[head |-> <<1, 0>>, pg |-> "C2v"], [head |-> <<0, 1>>, pg |-> "D2h"]}

\* shape = counts followed by the number of connectors
ShapeOf(out, frag) == Append(out.head, Len(frag))

\* ------------------------------------------------------ equivalence classes
\* The symmetry operations of the space groups used here, as the factor
\* applied to a scaled position: Spacegroup(1) = P1 has the identity,
\* Spacegroup(2) = P-1 the identity and the inversion.
SymOps(sg) == IF sg = 1 THEN <<1>> ELSE <<1, -1>>

\* site = numpy.mod(numpy.dot(rot, pos) + trans, 1.)
ApplyOp(op, pos) == <<(op * pos[1]) % Grid, (op * pos[2]) % Grid>>

RECURSIVE SitesFrom(_, _, _, _)
SitesFrom(ops, pos, q, sites) ==
    IF q > Len(ops) THEN sites
    ELSE LET site == ApplyOp(ops[q], pos)
         IN IF \E r \in 1 .. Len(sites) : sites[r] = site
            THEN SitesFrom(ops, pos, q + 1, sites)
            ELSE SitesFrom(ops, pos, q + 1, Append(sites, site))

\* sg.equivalent_sites(scaled_positions[ai]): the distinct images of pos
equivalent_sites(sg, pos) == SitesFrom(SymOps(sg), pos, 1, <<>>)

\* numpy.linalg.norm(scaled_positions - site, axis=1) against 0 and against
\* 1: norm < 1e-6 is coincidence, | norm - 1.0 | < 1e-6 is a squared distance
\* of exactly Grid^2 between the unwrapped grid points.  argmin gives the
\* first index that reaches the minimum.
ExactMatch(at, site) == {i \in Indices(at) : at.positions[i] = site}
FoldedMatch(at, site) ==
    {i \in Indices(at) : PointD2(at.positions[i], site) = Grid * Grid}

SiteIndices(at, site) ==
    (IF ExactMatch(at, site) # {} THEN <<Min(ExactMatch(at, site))>> ELSE <<>>)
    \o (IF FoldedMatch(at, site) # {}
        THEN <<Min(FoldedMatch(at, site))>> ELSE <<>>)

RECURSIVE TheseIndices(_, _, _)
TheseIndices(at, sites, q) ==
    IF q > Len(sites) THEN <<>>
    ELSE SiteIndices(at, sites[q]) \o TheseIndices(at, sites, q + 1)

\* the loop "for ai in Ais" that fills self.equivalent_sites
RECURSIVE BuildClasses(_, _, _, _, _)
BuildClasses(at, Ais, ai, seen, classes) ==
    IF ai >= at.n THEN classes
    ELSE IF ai \notin Ais \/ ai \in seen
         THEN BuildClasses(at, Ais, ai + 1, seen, classes)
         ELSE LET sites == equivalent_sites(at.sg, at.positions[ai])
                  these == SelectSeq(TheseIndices(at, sites, 1),
                                     LAMBDA idx : idx \in Ais)
              IN BuildClasses(at, Ais, ai + 1, seen \cup Range(these),
                              Append(classes, these))

\* ----------------------------------------------------- has_compatible_slots
RECURSIVE SortedSeq(_)
SortedSeq(S) ==
    IF S = {} THEN <<>> ELSE <<Min(S)>> \o SortedSeq(S \ {Min(S)})

Last(shape) == shape[Len(shape)]

\* [tuple(c[1]) for c in complist if c[0] in eq_sites]
SlotsOf(t, keys, eq_sites) ==
    LET members == SelectSeq(keys, LAMBDA k : k \in Range(eq_sites))
    IN [q \in 1 .. Len(members) |-> t.shapes[members[q]]]

\* (sbu.shape[:-1] - shape[:-1] >= 0).all()
Dominates(sbushape, shape) ==
    \A q \in 1 .. (Len(shape) - 1) : sbushape[q] - shape[q] >= 0

\* mutant of SlotLoop: the coercion branch assigns slots instead of
\* extending it
RECURSIVE SlotLoopOverwrite(_, _, _, _, _, _, _)
SlotLoopOverwrite(t, sbu, coercion, keys, p, seen_idx, slots) ==
    IF p > Len(keys) THEN [kind |-> "ok", slots |-> slots]
    ELSE
      LET idx == keys[p]
          shape == t.shapes[idx]
          pg == t.pointgroups[idx]
          holding == SelectSeq(t.equivalent_sites,
                               LAMBDA c : idx \in Range(c))
      IN IF idx \in seen_idx
         THEN SlotLoopOverwrite(t, sbu, coercion, keys, p + 1, seen_idx, slots)
         ELSE IF Len(holding) = 0
         THEN [kind |-> "IndexError", slots |-> <<>>]
         ELSE
           LET eq_sites == SelectSeq(holding[1],
                              LAMBDA e : Last(t.shapes[e]) = Last(shape))
               seen2 == seen_idx \cup Range(eq_sites)
               mult == (Last(sbu.shape) = Last(shape))
               accepted == slots \o SlotsOf(t, keys, eq_sites)
           IN IF ~mult
              THEN SlotLoopOverwrite(t, sbu, coercion, keys, p + 1, seen2, slots)
              ELSE IF pg = sbu.pg
              THEN SlotLoopOverwrite(t, sbu, coercion, keys, p + 1, seen2, accepted)
              ELSE IF Dominates(sbu.shape, shape)
              THEN SlotLoopOverwrite(t, sbu, coercion, keys, p + 1, seen2, accepted)
              ELSE IF coercion
              THEN SlotLoopOverwrite(t, sbu, coercion, keys, p + 1, seen2,
                                     SlotsOf(t, keys, eq_sites))
              ELSE SlotLoopOverwrite(t, sbu, coercion, keys, p + 1, seen2, slots)

\* the body of "for idx, shape, pg in complist", from position p on
RECURSIVE SlotLoop(_, _, _, _, _, _, _)
SlotLoop(t, sbu, coercion, keys, p, seen_idx, slots) ==
    IF p > Len(keys) THEN [kind |-> "ok", slots |-> slots]
    ELSE
      LET idx == keys[p]
          shape == t.shapes[idx]
          pg == t.pointgroups[idx]
          holding == SelectSeq(t.equivalent_sites,
                               LAMBDA c : idx \in Range(c))
      IN IF idx \in seen_idx
         THEN SlotLoop(t, sbu, coercion, keys, p + 1, seen_idx, slots)
         ELSE IF Len(holding) = 0
         THEN [kind |-> "IndexError", slots |-> <<>>]
         ELSE
           LET eq_sites == SelectSeq(holding[1],
                              LAMBDA e : Last(t.shapes[e]) = Last(shape))
               seen2 == seen_idx \cup Range(eq_sites)
               mult == (Last(sbu.shape) = Last(shape))
               accepted == slots \o SlotsOf(t, keys, eq_sites)
           IN IF ~mult
              THEN SlotLoop(t, sbu, coercion, keys, p + 1, seen2, slots)
              ELSE IF pg = sbu.pg
              THEN SlotLoop(t, sbu, coercion, keys, p + 1, seen2, accepted)
              ELSE IF Dominates(sbu.shape, shape)
              THEN SlotLoop(t, sbu, coercion, keys, p + 1, seen2, accepted)
              ELSE IF coercion
              THEN SlotLoop(t, sbu, coercion, keys, p + 1, seen2, accepted)
              ELSE SlotLoop(t, sbu, coercion, keys, p + 1, seen2, slots)

\* building complist reads self.shapes[ai] and self.pointgroups[ai] for every
\* key of self.fragments: a missing key raises KeyError
has_compatible_slots(t, sbu, coercion) ==
    IF \E ai \in DOMAIN t.fragments :
           ai \notin DOMAIN t.shapes \/ ai \notin DOMAIN t.pointgroups
    THEN [kind |-> "KeyError", slots |-> <<>>]
    ELSE SlotLoop(t, sbu, coercion, SortedSeq(DOMAIN t.fragments), 1, {}, <<>>)

\* ------------------------------------------------------------ other readers
\* set([tuple(shape) for shape in self.shapes.values()])
get_unique_shapes(t) == Range(t.shapes)

\* set(self.pointgroups.values())
get_unique_pointgroups(t) == Range(t.pointgroups)

\* frag.set_tags(numpy.ones(len(frag)) * idx) on the stored fragment
Retagged(frag, idx) == [q \in DOMAIN frag |-> [frag[q] EXCEPT !.tag = idx]]

RECURSIVE Concat(_, _, _)
Concat(frags, keys, p) ==
    IF p > Len(keys) THEN <<>>
    ELSE frags[keys[p]] \o Concat(frags, keys, p + 1)

\* --------------------------------------------------------- the structures
\* Grid points offered to the real atoms and to the dummies.  <<3, 4>> and
\* <<4, 3>> lie at scaled distance 1.0 from <<0, 0>> on a grid of 5;
\* <<2, 1>> is the inversion image of <<3, 4>>, <<4, 0>> that of <<1, 0>>.
RealSites == <<<<0, 0>>, <<3, 4>>, <<4, 3>>, <<2, 1>>>>
DummySites == <<<<1, 0>>, <<4, 0>>, <<0, 1>>>>

\* the strictly increasing site selections of a given length
Picks(m, len) ==
    {f \in [1 .. len -> 1 .. m] : \A q \in 1 .. (len - 1) : f[q] < f[q + 1]}

\* a structure as crystal() hands it over: real atoms then dummies, every tag
\* 0, coordination numbers (atomic numbers) in 1 .. MaxCoord
MakeAtoms(rp, nums, dp, sg) ==
    LET r == Len(rp)
        d == Len(dp)
    IN [n |-> r + d,
        numbers |-> [i \in 0 .. (r + d - 1) |->
                        IF i < r THEN nums[i + 1] ELSE 0],
        positions |-> [i \in 0 .. (r + d - 1) |->
                        IF i < r THEN RealSites[rp[i + 1]]
                        ELSE DummySites[dp[i - r + 1]]],
        tags |-> [i \in 0 .. (r + d - 1) |-> 0],
        sg |-> sg]

\* crystal() builds the structure from the space group, so every symmetry
\* image of an atom is an atom of the same kind
Symmetric(at) ==
    \A i \in Indices(at) : \A q \in 1 .. Len(SymOps(at.sg)) :
        \E j \in Indices(at) :
            /\ at.positions[j] = ApplyOp(SymOps(at.sg)[q], at.positions[i])
            /\ at.numbers[j] = at.numbers[i]

Structures ==
    {at \in UNION {
        {MakeAtoms(rp, nums, dp, sg) :
            rp \in Picks(Len(RealSites), r),
            nums \in [1 .. r -> 1 .. MaxCoord],
            dp \in Picks(Len(DummySites), d),
            sg \in {1, 2}} :
        r \in 0 .. MaxReal, d \in 0 .. MaxDummy} : Symmetric(at)}

\* ------------------------------------------------------------ the topology
NoTopology ==
    [exists |-> FALSE, analyzed |-> FALSE, atoms |-> <<>>,
     fragments |-> EmptyMap, shapes |-> EmptyMap, pointgroups |-> EmptyMap,
     equivalent_sites |-> <<>>]

\* what the last call returned
NoResult == [op |-> "none", target |-> "none", value |-> <<>>]

\* the SBU signatures offered to has_compatible_slots: the code reads
\* sbu.shape and sbu.pg independently of each other
Sbus ==
    {[shape |-> Append(h, m), pg |-> l] :
        h \in Heads, m \in 1 .. MaxCoord, l \in Labels}

Init ==
    /\ atoms \in Structures
    /\ given = atoms
    /\ topo = NoTopology
    /\ new = NoTopology
    /\ cutoffs = <<>>
    /\ result = NoResult
    /\ err = "none"

\* ---------------------------------------------------------------- actions
\* tags = zeros; tags[Xis] = Xis + 1; self.atoms.set_tags(tags)
WithTags(at, Xis) ==
    [at EXCEPT !.tags = [i \in Indices(at) |-> IF i \in Xis THEN i + 1 ELSE 0]]

\* the maps _analyze fills, for one answer nl of the neighbour list and one
\* answer cls of the classifier
AnalyzedTopology(at, Ais, nl, cls) ==
    LET frags == FragmentsOf(at, Ais, nl)
    IN [exists |-> TRUE, analyzed |-> TRUE, atoms |-> <<>>,
        fragments |-> frags,
        shapes |-> [ai \in Ais |-> ShapeOf(cls[Signature(frags[ai])], frags[ai])],
        pointgroups |-> [ai \in Ais |-> cls[Signature(frags[ai])].pg],
        equivalent_sites |-> BuildClasses(at, Ais, 0, {}, <<>>)]

\* Topology(name, atoms, analyze): self.atoms is the caller's object
Construct(analyze) ==
    /\ ~topo.exists
    /\ err = "none"
    /\ UNCHANGED <<given, new, result>>
    /\ IF ~analyze
       THEN /\ topo' = [NoTopology EXCEPT !.exists = TRUE]
            /\ UNCHANGED <<atoms, cutoffs, err>>
       ELSE LET Xis == XisOf(atoms)
                Ais == AisOf(atoms)
                tagged == WithTags(atoms, Xis)
                cut == _get_cutoffs(tagged, Xis, Ais)
            IN /\ atoms' = tagged
               /\ IF CutoffsRaise(tagged, Xis, Ais)
                  THEN /\ err' = "ValueError"
                       /\ UNCHANGED <<topo, cutoffs>>
                  ELSE /\ cutoffs' = cut
                       /\ IF FragmentsRaise(tagged, cut, Xis, Ais)
                          THEN /\ err' = "ValueError"
                               /\ UNCHANGED topo
                          ELSE /\ err' = err
                               /\ \E nl \in NeighborLists(tagged, cut, Xis, Ais) :
                                  \E cls \in
                                     [{Signature(f) :
                                        f \in Range(FragmentsOf(tagged, Ais, nl))}
                                      -> Outputs] :
                                     topo' = AnalyzedTopology(tagged, Ais, nl, cls)

Targets == {"self", "new"}

Target(tg) == IF tg = "self" THEN topo ELSE new

AtomsOf(tg) == IF tg = "self" THEN atoms ELSE new.atoms

\* copy(): a new instance built with analyze=False on atoms.copy(), then
\* new.fragments and new.shapes deep-copied from self
Copy ==
    /\ topo.exists
    /\ new' = [exists |-> TRUE, analyzed |-> FALSE, atoms |-> atoms,
               fragments |-> topo.fragments, shapes |-> topo.shapes,
               pointgroups |-> EmptyMap, equivalent_sites |-> <<>>]
    /\ result' = [NoResult EXCEPT !.op = "copy", !.target = "self"]
    /\ UNCHANGED <<atoms, given, topo, cutoffs, err>>

GetAtoms(tg) ==
    /\ Target(tg).exists
    /\ result' = [NoResult EXCEPT !.op = "get_atoms", !.target = tg,
                                  !.value = AtomsOf(tg)]
    /\ UNCHANGED <<atoms, given, topo, new, cutoffs, err>>

\* get_fragments(): every stored fragment gets its owner's index as tags,
\* the fragments are concatenated in key order
GetFragments(tg) ==
    /\ Target(tg).exists
    /\ LET t == Target(tg)
           retagged == [ai \in DOMAIN t.fragments |-> Retagged(t.fragments[ai], ai)]
       IN /\ IF tg = "self"
             THEN topo' = [topo EXCEPT !.fragments = retagged] /\ UNCHANGED new
             ELSE new' = [new EXCEPT !.fragments = retagged] /\ UNCHANGED topo
          /\ result' = [NoResult EXCEPT !.op = "get_fragments", !.target = tg,
                           !.value = Concat(retagged, SortedSeq(DOMAIN retagged), 1)]
    /\ UNCHANGED <<atoms, given, cutoffs, err>>

GetUniqueShapes(tg) ==
    /\ Target(tg).exists
    /\ result' = [NoResult EXCEPT !.op = "get_unique_shapes", !.target = tg,
                                  !.value = get_unique_shapes(Target(tg))]
    /\ UNCHANGED <<atoms, given, topo, new, cutoffs, err>>

GetUniquePointgroups(tg) ==
    /\ Target(tg).exists
    /\ result' = [NoResult EXCEPT !.op = "get_unique_pointgroups", !.target = tg,
                                  !.value = get_unique_pointgroups(Target(tg))]
    /\ UNCHANGED <<atoms, given, topo, new, cutoffs, err>>

HasCompatibleSlots(tg, sbu, coercion) ==
    /\ Target(tg).exists
    /\ result' = [op |-> "has_compatible_slots", target |-> tg,
                  value |-> has_compatible_slots(Target(tg), sbu, coercion)]
    /\ UNCHANGED <<atoms, given, topo, new, cutoffs, err>>

Next ==
    \/ \E analyze \in BOOLEAN : Construct(analyze)
    \/ Copy
    \/ \E tg \in Targets : GetAtoms(tg)
    \/ \E tg \in Targets : GetFragments(tg)
    \/ \E tg \in Targets : GetUniqueShapes(tg)
    \/ \E tg \in Targets : GetUniquePointgroups(tg)
    \/ \E tg \in Targets, sbu \in Sbus, coercion \in BOOLEAN :
           HasCompatibleSlots(tg, sbu, coercion)

Spec == Init /\ [][Next]_vars

\* ================================================================== claims
RealAtoms == AisOf(atoms)
Dummies == XisOf(atoms)
OffsetSet == Range(Offsets)

\* the members of the q-th equivalence class
Class(q) == Range(topo.equivalent_sites[q])

\* ---------------------------------------------------------------------- C1
\* C1: after construction with analyze=True, equivalent_sites is a partition
\* of the real-atom index set: every real atom lies in exactly one class and
\* no two classes share an index.
C1_Partition ==
    topo.analyzed =>
        /\ \A ai \in RealAtoms :
               Cardinality({q \in DOMAIN topo.equivalent_sites : ai \in Class(q)}) = 1
        /\ \A q \in DOMAIN topo.equivalent_sites : Class(q) \subseteq RealAtoms
        /\ \A q, r \in DOMAIN topo.equivalent_sites :
               q # r => Class(q) \cap Class(r) = {}

\* ---------------------------------------------------------------------- C2
\* connectors whose minimum-image distance lies within the cutoff of atom i
WithinCutoff(i) == {j \in Dummies : MicD2(atoms, i, j) <= cutoffs[i].d2}

\* some k connectors are strictly nearer to i than all the others
Separable(i, k) ==
    \E S \in SUBSET Dummies :
        /\ Cardinality(S) = k
        /\ \A j \in S : \A h \in Dummies \ S :
               MicD2(atoms, i, j) < MicD2(atoms, i, h)

\* C2 as stated: with at least k connectors the cutoff of a real atom of
\* coordination k captures exactly k of them, ties at the k-th distance
\* included; with fewer than k it is the largest connector distance.
C2_ExactlyK ==
    cutoffs # <<>> =>
        \A i \in RealAtoms :
            IF Cardinality(Dummies) >= atoms.numbers[i]
            THEN Cardinality(WithinCutoff(i)) = atoms.numbers[i]
            ELSE \A j \in Dummies : MicD2(atoms, i, j) <= cutoffs[i].d2

\* C2 amended: with at least k connectors the cutoff is the k-th smallest
\* connector distance: it captures at least k connectors, fewer than k lie
\* strictly inside it, and it captures exactly k if and only if k connectors
\* are strictly nearer than all the others (no tie at the k-th distance);
\* with fewer than k connectors the cutoff is the largest connector distance
\* and captures them all.
C2_KthDistance ==
    cutoffs # <<>> =>
        \A i \in RealAtoms :
            LET k == atoms.numbers[i]
            IN /\ \E j \in Dummies : MicD2(atoms, i, j) = cutoffs[i].d2
               /\ IF Cardinality(Dummies) >= k
                  THEN /\ Cardinality(WithinCutoff(i)) >= k
                       /\ Cardinality({j \in Dummies :
                              MicD2(atoms, i, j) < cutoffs[i].d2}) < k
                       /\ (Cardinality(WithinCutoff(i)) = k) <=> Separable(i, k)
                  ELSE WithinCutoff(i) = Dummies

\* a tie at the k-th distance next to an atom that gets exactly k
C2_Witness ==
    /\ cutoffs # <<>>
    /\ \E i \in RealAtoms :
           /\ Cardinality(Dummies) >= atoms.numbers[i]
           /\ Cardinality(WithinCutoff(i)) > atoms.numbers[i]
    /\ \E i \in RealAtoms :
           /\ Cardinality(Dummies) > atoms.numbers[i]
           /\ Cardinality(WithinCutoff(i)) = atoms.numbers[i]

\* ---------------------------------------------------------------------- C3
\* periodic images of connectors within reach of real atom ai: the distance
\* is below the atom's cutoff plus the connector's own radius, the skin
ImagesInReach(ai) ==
    {jo \in Dummies \X OffsetSet :
        ImageD2(atoms, ai, jo[1], jo[2]) <= cutoffs[ai].d2}

\* C3: after a successful decomposition fragments, shapes and pointgroups
\* have exactly the real atoms as keys, and every fragment has as many
\* points as there are connector images within reach of its atom.
C3_FragmentCount ==
    topo.analyzed =>
        /\ DOMAIN topo.fragments = RealAtoms
        /\ DOMAIN topo.shapes = RealAtoms
        /\ DOMAIN topo.pointgroups = RealAtoms
        /\ \A ai \in RealAtoms :
               Len(topo.fragments[ai]) = Cardinality(ImagesInReach(ai))

\* two real atoms, one fragment of two points, one point taken from a
\* neighbouring cell
C3_Witness ==
    /\ topo.analyzed
    /\ Cardinality(RealAtoms) >= 2
    /\ \E ai \in RealAtoms : Len(topo.fragments[ai]) = 2
    /\ \E ai \in RealAtoms : \E q \in DOMAIN topo.fragments[ai] :
           topo.fragments[ai][q].pos[2] >= Grid

\* ---------------------------------------------------------------------- C4
SlotSet(t, sbu, coercion) == Range(has_compatible_slots(t, sbu, coercion).slots)

\* C4: every slot returned with coercion=False is returned with
\* coercion=True, for every topology and every SBU signature.
C4_CoercionSuperset ==
    \A tg \in Targets : \A sbu \in Sbus :
        LET strict == has_compatible_slots(Target(tg), sbu, FALSE)
            coerced == has_compatible_slots(Target(tg), sbu, TRUE)
        IN (Target(tg).exists /\ strict.kind = "ok")
           => /\ coerced.kind = "ok"
              /\ Range(strict.slots) \subseteq Range(coerced.slots)

\* a call whose coercion=True answer strictly extends a non-empty
\* coercion=False answer
C4_Witness ==
    /\ result.op = "has_compatible_slots"
    /\ result.target = "self"
    /\ \E sbu \in Sbus :
           /\ result.value = has_compatible_slots(topo, sbu, TRUE)
           /\ SlotSet(topo, sbu, FALSE) # {}
           /\ SlotSet(topo, sbu, FALSE) # SlotSet(topo, sbu, TRUE)

\* ---------------------------------------------------------------------- C5
\* C5: a real atom whose point-group label and multiplicity equal the SBU's
\* is accepted: its shape vector is among the returned slots, with either
\* value of coercion.
C5_LabelMatchAccepted ==
    \A tg \in Targets : \A sbu \in Sbus : \A coercion \in BOOLEAN :
        \A ai \in DOMAIN Target(tg).pointgroups :
            (/\ Target(tg).pointgroups[ai] = sbu.pg
             /\ Last(Target(tg).shapes[ai]) = Last(sbu.shape))
            => Target(tg).shapes[ai] \in SlotSet(Target(tg), sbu, coercion)

\* ---------------------------------------------------------------------- C6
\* C6: every returned shape vector has the SBU's multiplicity, and the call
\* returns a value (an empty one when no real atom has that multiplicity)
\* instead of raising.
C6_MultiplicityGate ==
    \A tg \in Targets : \A sbu \in Sbus : \A coercion \in BOOLEAN :
        Target(tg).exists =>
            LET res == has_compatible_slots(Target(tg), sbu, coercion)
            IN /\ res.kind = "ok"
               /\ \A q \in DOMAIN res.slots : Last(res.slots[q]) = Last(sbu.shape)
               /\ (\A ai \in DOMAIN Target(tg).shapes :
                       Last(Target(tg).shapes[ai]) # Last(sbu.shape))
                  => res.slots = <<>>

\* ---------------------------------------------------------------------- C7
\* the neighbour query of real atom ai has no connector to return
NoConnectorFound(ai) ==
    \/ Dummies = {}
    \/ cutoffs # <<>> /\ ImagesInReach(ai) = {}

\* C7: when some real atom has no connector to find, construction fails with
\* MalformedTopologyError and returns no object.
C7_MalformedTopologyError ==
    (/\ err # "none" \/ topo.analyzed
     /\ \E ai \in RealAtoms : NoConnectorFound(ai))
    => /\ err = "MalformedTopologyError"
       /\ ~topo.exists

\* ---------------------------------------------------------------------- C8
\* C8: copy() returns a Topology whose fragments, shapes, pointgroups and
\* equivalent_sites equal the original's, so that has_compatible_slots
\* answers the same on both.
C8_CopyByValue ==
    result.op = "copy" =>
        /\ new.fragments = topo.fragments
        /\ new.shapes = topo.shapes
        /\ new.pointgroups = topo.pointgroups
        /\ new.equivalent_sites = topo.equivalent_sites
        /\ \A sbu \in Sbus : \A coercion \in BOOLEAN :
               has_compatible_slots(new, sbu, coercion)
                   = has_compatible_slots(topo, sbu, coercion)

\* ---------------------------------------------------------------------- C9
\* the connector whose position, folded into the cell, is pos
SourceOf(pos) ==
    CHOOSE j \in Dummies : atoms.positions[j] = <<pos[1] % Grid, pos[2] % Grid>>

\* C9: every stored fragment keeps the tags it was created with, the index
\* of the source connector plus one, whatever read operations were called.
C9_FragmentsNeverMutated ==
    topo.analyzed =>
        \A ai \in DOMAIN topo.fragments : \A q \in DOMAIN topo.fragments[ai] :
            topo.fragments[ai][q].tag = SourceOf(topo.fragments[ai][q].pos) + 1

\* --------------------------------------------------------------------- C10
\* C10: the structure passed to the constructor stays as the caller gave it.
C10_StructureUnchanged == atoms = given

\* --------------------------------------------------------------------- C11
\* C11: in the array _get_cutoffs returns, the entry of every real atom is
\* its computed distance (the k-th smallest connector distance, or the
\* largest when fewer than k connectors exist) plus the skin margin, and the
\* entry of every connector is the skin margin alone.
C11_SkinOnEveryCutoff ==
    cutoffs # <<>> =>
        /\ \A i \in RealAtoms :
               cutoffs[i] = [d2 |-> CutoffOf(atoms, i, Dummies), skin |-> skin]
        /\ \A j \in Dummies : cutoffs[j] = [d2 |-> 0, skin |-> skin]

\* --------------------------------------------------------------------- C12
\* the gates of the matching algorithm without coercion, for one real atom:
\* the multiplicity gate, then the label gate or the symmetry-order gate
PassesGates(t, sbu, ai) ==
    /\ Last(t.shapes[ai]) = Last(sbu.shape)
    /\ \/ t.pointgroups[ai] = sbu.pg
       \/ Dominates(sbu.shape, t.shapes[ai])

\* C12: with coercion=False the call returns exactly the shape vectors of the
\* real atoms that pass the gates, the shape vector of every other atom is
\* left out, and every atom is evaluated once: the result has one entry per
\* passing atom.
C12_ExactGates ==
    \A tg \in Targets : \A sbu \in Sbus :
        Target(tg).exists =>
            LET t == Target(tg)
                res == has_compatible_slots(t, sbu, FALSE)
                passing == {ai \in DOMAIN t.fragments : PassesGates(t, sbu, ai)}
            IN /\ res.kind = "ok"
               /\ Range(res.slots) = {t.shapes[ai] : ai \in passing}
               /\ Len(res.slots) = Cardinality(passing)

\* --------------------------------------------------------------------- C13
\* atom idx sits on site, up to a translation by a whole lattice vector
OnSite(idx, site) ==
    /\ atoms.positions[idx][1] % Grid = site[1] % Grid
    /\ atoms.positions[idx][2] % Grid = site[2] % Grid

\* C13: every equivalence class holds its seed, and every member is a real
\* atom that sits, up to a lattice translation, on one of the space-group
\* equivalent sites of the seed; a scaled distance of 1.0 from a site in a
\* direction that is no lattice vector puts no atom in a class.
C13_MembersOnEquivalentSites ==
    topo.analyzed =>
        \A q \in DOMAIN topo.equivalent_sites :
            \E seed \in RealAtoms :
                /\ seed \in Class(q)
                /\ \A idx \in Class(q) :
                       /\ idx \in RealAtoms
                       /\ \E site \in Range(equivalent_sites(atoms.sg,
                                                atoms.positions[seed])) :
                              OnSite(idx, site)

====
